---- MODULE Spec2Model ----
(***************************************************************************)
(* Model of the banana-knowledge workflow tools: the Redis-backed step     *)
(* store (database.py), the image pipeline (main.py), the chat endpoint    *)
(* (chat.py) and the two diagram renderers / the transcript extractor      *)
(* (generate.py, generate_from_transcript.py).                             *)
(*                                                                         *)
(* Text is modelled as a sequence of atoms.  An atom is either one of the  *)
(* JSON-significant characters  { } [ ] : , " \  and the blank, or a run   *)
(* of ordinary characters (a word such as "id", a number such as "12").    *)
(***************************************************************************)
EXTENDS Integers, Sequences, FiniteSets, TLC

VARIABLES
    db,         \* Redis: key |-> list of JSON payloads (absent key = no list)
    hist,       \* history: per workflow name, the steps appended since its last delete
    cleared,    \* history: per workflow name, whether delete_steps was ever called on it
    ret,        \* what the last get_steps call returned
    raw_text,   \* generate_workflow: the text model's reply
    outcome,    \* generate_workflow: how the call ended
    style,      \* generate_workflow_diagram: which module's renderer ran
    workflow,   \* generate_workflow_diagram: the workflow passed in
    steps_block,\* generate_workflow_diagram: the step block put in the prompt
    parts,      \* generate_workflow_diagram: response.parts of the image model
    image_file, \* the file at the output path: Absent or the image saved there
    render_out, \* generate_workflow_diagram: the path returned or the error raised
    chat_call,  \* POST /chat: the last request, what it sent to the model and its response
    pc,         \* main.py, per process: idle, loop, render, done or aborted
    files,      \* main.py, per process: sorted(os.listdir("assets/workflow"))
    idx,        \* main.py, per process: the counter i
    snapshot,   \* main.py, per process: the steps read into the workflow dict
    started,    \* how many runs of main.py have started
    arrivals    \* history: the process of each add_step, in the order they reached Redis

storeVars == <<db, hist, cleared, ret>>
extractVars == <<raw_text, outcome>>
renderVars == <<style, workflow, steps_block, parts, image_file, render_out>>
runVars == <<pc, files, idx, snapshot, started, arrivals>>
vars == <<storeVars, extractVars, renderVars, chat_call, runVars>>

-----------------------------------------------------------------------------
(* Bounds of the model *)

MaxSteps == 2       \* longest stored list explored by the store specification
MaxInt == 3         \* largest integer literal the JSON scanner is asked to read
MaxAffix == 2       \* most atoms of free text before, and after, the body of a model reply
MaxRenderSteps == 2 \* most steps in a workflow handed to a renderer
MaxParts == 2       \* most parts in a response of the image model
MaxFiles == 2       \* most files in assets/workflow
MaxRuns == 3        \* most runs of main.py one after another

-----------------------------------------------------------------------------
(* Python values as they travel through json: tagged records *)

JNum(n) == [t |-> "num", n |-> n]
JStr(s) == [t |-> "str", s |-> s]
JNull == [t |-> "null"]
JBool(b) == [t |-> "bool", b |-> b]
JArr(a) == [t |-> "arr", a |-> a]
JObj(m) == [t |-> "obj", m |-> m]     \* m: sequence of [k, v], insertion order

Member(k, v) == [k |-> k, v |-> v]

HasKey(data, k) == \E i \in 1..Len(data.m) : data.m[i].k = k

Get(data, k) == data.m[CHOOSE i \in 1..Len(data.m) : data.m[i].k = k].v

\* dict[k] = v : an existing key keeps its position, a new key goes last
PutKey(m, k, v) ==
    IF \E i \in 1..Len(m) : m[i].k = k
    THEN [i \in 1..Len(m) |-> IF m[i].k = k THEN Member(k, v) ELSE m[i]]
    ELSE Append(m, Member(k, v))

-----------------------------------------------------------------------------
(* json.dumps with the default separators (", " and ": ") *)

RECURSIVE Flatten(_)
Flatten(ss) == IF ss = <<>> THEN <<>> ELSE Head(ss) \o Flatten(Tail(ss))

\* sep.join(items), each item and sep a text
Join(items, sep) ==
    Flatten([i \in 1..Len(items) |-> IF i = 1 THEN items[i] ELSE sep \o items[i]])

\* inside a string literal the quote and the backslash are escaped
Escape(s) ==
    Flatten([i \in 1..Len(s) |->
                IF s[i] \in {"\"", "\\"} THEN <<"\\", s[i]>> ELSE <<s[i]>>])

Quoted(s) == <<"\"">> \o Escape(s) \o <<"\"">>

RECURSIVE json_dumps(_)
json_dumps(v) ==
    CASE v.t = "num" -> <<ToString(v.n)>>
      [] v.t = "str" -> Quoted(v.s)
      [] v.t = "null" -> <<"null">>
      [] v.t = "bool" -> IF v.b THEN <<"true">> ELSE <<"false">>
      [] v.t = "arr" ->
            <<"[">> \o Join([i \in 1..Len(v.a) |-> json_dumps(v.a[i])], <<",", " ">>)
                    \o <<"]">>
      [] v.t = "obj" ->
            <<"{">> \o Join([i \in 1..Len(v.m) |->
                                Quoted(v.m[i].k) \o <<":", " ">> \o json_dumps(v.m[i].v)],
                            <<",", " ">>)
                    \o <<"}">>

-----------------------------------------------------------------------------
(* json.loads: a scanner over the atoms.  Every Parse* operator returns    *)
(* [ok |-> TRUE, v |-> value, i |-> position after it] or Fail (a          *)
(* json.JSONDecodeError).                                                  *)

Fail == [ok |-> FALSE]
Ok(v, i) == [ok |-> TRUE, v |-> v, i |-> i]

At(s, i) == IF i \in 1..Len(s) THEN s[i] ELSE "<eof>"

RECURSIVE SkipWs(_, _)
SkipWs(s, i) == IF At(s, i) = " " THEN SkipWs(s, i + 1) ELSE i

IsNumber(tok) == \E n \in 0..MaxInt : ToString(n) = tok
ParseInt(tok) == CHOOSE n \in 0..MaxInt : ToString(n) = tok

\* the characters of a string literal, from the atom after the opening quote
RECURSIVE ScanString(_, _, _)
ScanString(s, i, acc) ==
    CASE At(s, i) = "<eof>" -> Fail
      [] At(s, i) = "\"" -> Ok(acc, i + 1)
      [] At(s, i) = "\\" ->
            IF At(s, i + 1) \in {"\"", "\\"}
            THEN ScanString(s, i + 2, Append(acc, s[i + 1]))
            ELSE Fail
      [] OTHER -> ScanString(s, i + 1, Append(acc, s[i]))

RECURSIVE ParseValue(_, _)
RECURSIVE ParseMembers(_, _, _)
RECURSIVE ParseElements(_, _, _)

ParseValue(s, i) ==
    CASE At(s, i) = "\"" ->
            LET r == ScanString(s, i + 1, <<>>)
            IN  IF r.ok THEN Ok(JStr(r.v), r.i) ELSE Fail
      [] At(s, i) = "{" ->
            LET j == SkipWs(s, i + 1)
            IN  IF At(s, j) = "}" THEN Ok(JObj(<<>>), j + 1)
                ELSE ParseMembers(s, j, <<>>)
      [] At(s, i) = "[" ->
            LET j == SkipWs(s, i + 1)
            IN  IF At(s, j) = "]" THEN Ok(JArr(<<>>), j + 1)
                ELSE ParseElements(s, j, <<>>)
      [] At(s, i) = "null" -> Ok(JNull, i + 1)
      [] At(s, i) = "true" -> Ok(JBool(TRUE), i + 1)
      [] At(s, i) = "false" -> Ok(JBool(FALSE), i + 1)
      [] IsNumber(At(s, i)) -> Ok(JNum(ParseInt(s[i])), i + 1)
      [] OTHER -> Fail

\* "key": value pairs up to the closing brace; i is at the key's opening quote
ParseMembers(s, i, acc) ==
    IF At(s, i) # "\"" THEN Fail
    ELSE LET key == ScanString(s, i + 1, <<>>)
         IN  IF ~key.ok THEN Fail
             ELSE LET c == SkipWs(s, key.i)
                  IN  IF At(s, c) # ":" THEN Fail
                      ELSE LET val == ParseValue(s, SkipWs(s, c + 1))
                           IN  IF ~val.ok THEN Fail
                               ELSE LET e == SkipWs(s, val.i)
                                        m == PutKey(acc, key.v, val.v)
                                    IN  CASE At(s, e) = "}" -> Ok(JObj(m), e + 1)
                                          [] At(s, e) = "," ->
                                                ParseMembers(s, SkipWs(s, e + 1), m)
                                          [] OTHER -> Fail

\* values up to the closing bracket; i is at the first atom of a value
ParseElements(s, i, acc) ==
    LET val == ParseValue(s, i)
    IN  IF ~val.ok THEN Fail
        ELSE LET e == SkipWs(s, val.i)
                 a == Append(acc, val.v)
             IN  CASE At(s, e) = "]" -> Ok(JArr(a), e + 1)
                   [] At(s, e) = "," -> ParseElements(s, SkipWs(s, e + 1), a)
                   [] OTHER -> Fail

\* one JSON document and nothing but blanks around it
json_loads(s) ==
    LET r == ParseValue(s, SkipWs(s, 1))
    IN  IF r.ok /\ SkipWs(s, r.i) = Len(s) + 1 THEN [ok |-> TRUE, v |-> r.v] ELSE Fail

-----------------------------------------------------------------------------
(* database.py *)

\* redis RPUSH / LRANGE key 0 -1 / DEL on a store d
rpush(d, key, payload) ==
    IF key \in DOMAIN d
    THEN [d EXCEPT ![key] = Append(@, payload)]
    ELSE [k \in DOMAIN d \cup {key} |-> IF k = key THEN <<payload>> ELSE d[k]]

lrange(d, key) == IF key \in DOMAIN d THEN d[key] ELSE <<>>

delete(d, key) == [k \in DOMAIN d \ {key} |-> d[k]]

\* (faulty variant of WorkflowKey) one key for every workflow
WorkflowKey_Shared(workflow_name) == "workflows:"

WorkflowKey(workflow_name) == "workflows:" \o workflow_name

\* (faulty variant of add_step) lpush: the payload goes to the head of the list
add_step_AtHead(d, step, workflow_name) ==
    LET key == WorkflowKey(workflow_name)
    IN  [k \in DOMAIN d \cup {key} |->
            IF k = key THEN <<json_dumps(step)>> \o lrange(d, key) ELSE d[k]]

\* (faulty variant of add_step) a payload already in the list is not pushed again
add_step_Unique(d, step, workflow_name) ==
    LET key == WorkflowKey(workflow_name)
        items == lrange(d, key)
    IN  IF \E k \in 1..Len(items) : items[k] = json_dumps(step)
        THEN d
        ELSE rpush(d, key, json_dumps(step))

add_step(d, step, workflow_name) ==
    rpush(d, WorkflowKey(workflow_name), json_dumps(step))

\* get_steps raises when a stored payload does not decode
get_steps_raises(d, workflow_name) ==
    LET items == lrange(d, WorkflowKey(workflow_name))
    IN  \E i \in 1..Len(items) : ~json_loads(items[i]).ok

get_steps(d, workflow_name) ==
    LET items == lrange(d, WorkflowKey(workflow_name))
    IN  [i \in 1..Len(items) |-> json_loads(items[i]).v]

\* (faulty variant of delete_steps) the key is built without the "workflows:" prefix
delete_steps_BareName(d, workflow_name) == delete(d, workflow_name)

delete_steps(d, workflow_name) == delete(d, WorkflowKey(workflow_name))

\* a step record as main.py builds it: {"id": i, "text": response.text}
Step(id, text) == JObj(<<Member(<<"id">>, JNum(id)), Member(<<"text">>, JStr(text))>>)

-----------------------------------------------------------------------------
(* The store driven by arbitrary clients *)

Names == {"workflow", "other"}

StepValues ==
    { Step(0, <<"a">>),
      Step(1, <<"say", " ", "\"", "hi", "\"", "\\">>),
      Step(0, <<"{", "}", ",">>) }

NoCall == [op |-> "none"]

NoReply == <<"<none>">>
NotCalled == [kind |-> "none"]

ExtractIdle == raw_text = NoReply /\ outcome = NotCalled

Absent == "<absent>"
NoWorkflow == JObj(<<>>)

RenderIdle ==
    /\ style = "none"
    /\ workflow = NoWorkflow
    /\ steps_block = <<>>
    /\ parts = <<>>
    /\ image_file = Absent
    /\ render_out = NotCalled

NoChat == [op |-> "none"]

Procs == {1, 2}

RunIdle ==
    /\ pc = [p \in Procs |-> "idle"]
    /\ files = [p \in Procs |-> <<>>]
    /\ idx = [p \in Procs |-> 0]
    /\ snapshot = [p \in Procs |-> <<>>]
    /\ started = 0
    /\ arrivals = <<>>

ChatIdle == chat_call = NoChat

StoreInit ==
    /\ ExtractIdle
    /\ RenderIdle
    /\ ChatIdle
    /\ RunIdle
    /\ db = <<>>
    /\ hist = [n \in Names |-> <<>>]
    /\ cleared = [n \in Names |-> FALSE]
    /\ ret = NoCall

AddStep(step, name) ==
    /\ Len(hist[name]) < MaxSteps
    /\ db' = add_step(db, step, name)
    /\ hist' = [hist EXCEPT ![name] = Append(@, step)]
    /\ ret' = NoCall
    /\ chat_call' = NoChat
    /\ UNCHANGED <<cleared, extractVars, renderVars, runVars>>

GetSteps(name) ==
    /\ ~get_steps_raises(db, name)
    /\ ret' = [op |-> "get_steps", name |-> name, steps |-> get_steps(db, name)]
    /\ UNCHANGED <<db, hist, cleared, extractVars, renderVars, chat_call, runVars>>

DeleteSteps(name) ==
    /\ db' = delete_steps(db, name)
    /\ hist' = [hist EXCEPT ![name] = <<>>]
    /\ cleared' = [cleared EXCEPT ![name] = TRUE]
    /\ ret' = NoCall
    /\ chat_call' = NoChat
    /\ UNCHANGED <<extractVars, renderVars, runVars>>

StoreNext ==
    \/ \E step \in StepValues, name \in Names : AddStep(step, name)
    \/ \E name \in Names : GetSteps(name)
    \/ \E name \in Names : DeleteSteps(name)

SpecStore == StoreInit /\ [][StoreNext]_vars

-----------------------------------------------------------------------------
(* Claims about the store *)

\* C1: for a name that was never deleted, get_steps returns exactly the steps
\* appended to it, each equal to the value appended, in append order; and the
\* result a get_steps call handed back is that sequence.
C1_AppendReadOrder ==
    /\ \A n \in Names :
          ~cleared[n] => /\ ~get_steps_raises(db, n)
                         /\ get_steps(db, n) = hist[n]
    /\ (ret.op = "get_steps" /\ ~cleared[ret.name]) => ret.steps = hist[ret.name]

C1_Witness ==
    /\ ret.op = "get_steps"
    /\ ~cleared[ret.name]
    /\ Len(ret.steps) = 2
    /\ ret.steps[1] # ret.steps[2]
    /\ ret.steps[2] = Step(0, <<"a">>)

\* C2: once delete_steps was called on a name, get_steps returns exactly the
\* steps appended since the last delete, in append order (none right after the
\* delete, and never an entry that was cleared).
C2_ClearSemantics ==
    /\ \A n \in Names :
          cleared[n] => /\ ~get_steps_raises(db, n)
                        /\ get_steps(db, n) = hist[n]
    /\ (ret.op = "get_steps" /\ cleared[ret.name]) => ret.steps = hist[ret.name]

C2_Witness ==
    /\ ret.op = "get_steps"
    /\ cleared[ret.name]
    /\ Len(ret.steps) = 1
    /\ cleared["other"] /\ hist["other"] = <<>> /\ get_steps(db, "other") = <<>>

\* C3: an add_step or a delete_steps on one name leaves get_steps of every
\* other name unchanged, and a get_steps call changes no stored list.
C3_IndependentNames ==
    [][\A a \in Names :
         /\ ((\E s \in StepValues : AddStep(s, a)) \/ DeleteSteps(a))
                => \A b \in Names \ {a} : get_steps(db', b) = get_steps(db, b)
         /\ GetSteps(a) => db' = db]_vars

C3_Witness ==
    /\ Len(get_steps(db, "workflow")) = 2
    /\ Len(get_steps(db, "other")) = 1
    /\ \A i \in 1..2 : get_steps(db, "workflow")[i] # get_steps(db, "other")[1]
    /\ cleared["other"]

-----------------------------------------------------------------------------
(* generate_from_transcript.py: generate_workflow *)

\* str.find / str.rfind: 0-based index of the first / last occurrence, or -1
find(s, a) ==
    IF \E i \in 1..Len(s) : s[i] = a
    THEN (CHOOSE i \in 1..Len(s) : s[i] = a /\ \A j \in 1..(i - 1) : s[j] # a) - 1
    ELSE -1

rfind(s, a) ==
    IF \E i \in 1..Len(s) : s[i] = a
    THEN (CHOOSE i \in 1..Len(s) : s[i] = a /\ \A j \in (i + 1)..Len(s) : s[j] # a) - 1
    ELSE -1

\* s[start:end] for 0 <= start
Slice(s, start, end) == SubSeq(s, start + 1, end)

\* Python's  word in data  for the values json.loads can return; the test itself
\* raises TypeError on a number, a bool or None
Iterable(data) == data.t \in {"obj", "arr", "str"}

In(word, data) ==
    CASE data.t = "obj" -> HasKey(data, <<word>>)
      [] data.t = "arr" -> \E i \in 1..Len(data.a) : data.a[i] = JStr(<<word>>)
      [] data.t = "str" -> \E i \in 1..Len(data.s) : data.s[i] = word

\* len(x) raises TypeError on a number, a bool or None
Sized(x) == x.t \in {"obj", "arr", "str"}

Raise(error, stage, data) ==
    [kind |-> "raise", error |-> error, stage |-> stage, data |-> data]
Return(stage, data) ==
    [kind |-> "return", error |-> "", stage |-> stage, data |-> data]

Unparsed == [t |-> "unparsed"]

\* (faulty variant of MissingKeys) the test joins the two checks with "and"
MissingKeys_And(data) ==
    ~In("workflow_name", data) /\ ~In("steps", data)

\* line 122:  "workflow_name" not in data or "steps" not in data
MissingKeys(data) ==
    ~In("workflow_name", data) \/ ~In("steps", data)

\* lines 120-129: the sanity check and the two debug prints after it
Validate(stage, data) ==
    CASE ~Iterable(data) -> Raise("TypeError", stage, data)
      [] Iterable(data) /\ MissingKeys(data) ->
            IF data.t = "obj"
            THEN Raise("RuntimeError: missing required keys", stage, data)
            ELSE Raise("AttributeError", stage, data)      \* data.keys()
      [] OTHER ->
            IF data.t # "obj" THEN Raise("AttributeError", stage, data)   \* data.get
            ELSE IF HasKey(data, <<"steps">>) /\ ~Sized(Get(data, <<"steps">>))
                 THEN Raise("TypeError", stage, data)      \* len(data.get('steps', []))
                 ELSE Return(stage, data)

\* (faulty variant of CutBraces) the block is cut at the first closing brace
CutBraces_FirstClose(text) ==
    LET start == find(text, "{")
        end == find(text, "}")
    IN  IF start = -1 \/ end = -1
        THEN [found |-> FALSE, text |-> <<>>]
        ELSE [found |-> TRUE, text |-> Slice(text, start, end + 1)]

\* lines 111-117: the text from the first "{" to the last "}"
CutBraces(text) ==
    LET start == find(text, "{")
        end == rfind(text, "}")
    IN  IF start = -1 \/ end = -1
        THEN [found |-> FALSE, text |-> <<>>]
        ELSE [found |-> TRUE, text |-> Slice(text, start, end + 1)]

\* lines 99-129, on the reply text
generate_workflow(text) ==
    LET direct == json_loads(text)
    IN  IF direct.ok THEN Validate("direct", direct.v)
        ELSE LET cut == CutBraces(text)
             IN  IF ~cut.found
                 THEN Raise("RuntimeError: could not find JSON object", "braces", Unparsed)
                 ELSE LET block == json_loads(cut.text)
                      IN  IF ~block.ok
                          THEN Raise("JSONDecodeError", "braces", Unparsed)
                          ELSE Validate("braces", block.v)

(* The replies the text model may give: a body with free text around it *)

StepOne == Step(1, <<"a">>)
WorkflowX ==
    JObj(<<Member(<<"workflow_name">>, JStr(<<"X">>)),
           Member(<<"steps">>, JArr(<<StepOne>>))>>)
OnlyName == JObj(<<Member(<<"workflow_name">>, JStr(<<"X">>))>>)
Foo == JObj(<<Member(<<"foo">>, JNum(1))>>)
StepsIsNumber ==
    JObj(<<Member(<<"steps">>, JNum(2)), Member(<<"workflow_name">>, JStr(<<"X">>))>>)

Bodies ==
    { WorkflowX, OnlyName, Foo, StepsIsNumber,
      JArr(<<WorkflowX>>),
      JArr(<<JStr(<<"workflow_name">>), JStr(<<"steps">>)>>),
      JStr(<<"workflow_name", " ", "steps">>),
      JNum(1), JNull, JBool(TRUE) }

Cores == {json_dumps(b) : b \in Bodies} \cup {<<>>}

AffixAtoms == {"x", " ", "{", "}"}

Affixes == UNION {[1..n -> AffixAtoms] : n \in 0..MaxAffix}

ExtractInit ==
    /\ ExtractIdle
    /\ RenderIdle
    /\ ChatIdle
    /\ RunIdle
    /\ db = <<>>
    /\ hist = [n \in Names |-> <<>>]
    /\ cleared = [n \in Names |-> FALSE]
    /\ ret = NoCall

\* one call of generate_workflow: the model replies, the reply is parsed and checked
GenerateWorkflow ==
    /\ outcome = NotCalled
    /\ \E pre \in Affixes, core \in Cores, suf \in Affixes :
          /\ raw_text' = pre \o core \o suf
          /\ outcome' = generate_workflow(pre \o core \o suf)
    /\ UNCHANGED <<storeVars, renderVars, chat_call, runVars>>

ExtractNext == GenerateWorkflow

SpecExtract == ExtractInit /\ [][ExtractNext]_vars

-----------------------------------------------------------------------------
(* Claims about generate_workflow *)

Called == outcome.kind # "none"

HasBraces(text) ==
    (\E i \in 1..Len(text) : text[i] = "{") /\ (\E i \in 1..Len(text) : text[i] = "}")

\* the reply from its first "{" to its last "}"
BraceBlock(text) ==
    LET first == CHOOSE i \in 1..Len(text) :
                    text[i] = "{" /\ \A j \in 1..(i - 1) : text[j] # "{"
        last == CHOOSE i \in 1..Len(text) :
                    text[i] = "}" /\ \A j \in (i + 1)..Len(text) : text[j] # "}"
    IN  SubSeq(text, first, last)

\* the JSON objects among the bodies, each with its text
Objects == {[obj |-> b, text |-> json_dumps(b)] : b \in {x \in Bodies : x.t = "obj"}}

\* the object o stands at place i of the reply, with text around it
Embedded(text, i, o) ==
    /\ text[i] = "{"
    /\ Len(text) > Len(o.text)
    /\ i + Len(o.text) - 1 <= Len(text)
    /\ SubSeq(text, i, i + Len(o.text) - 1) = o.text

\* the call got obj out of the reply, and returned it if it is the whole workflow
Extracted(obj) ==
    /\ outcome.data = obj
    /\ obj = WorkflowX => outcome.kind = "return"

\* the two stages and their fatal ends, as C4 states them
TwoStages ==
    LET direct == json_loads(raw_text)
    IN  /\ direct.ok => outcome.stage = "direct" /\ outcome.data = direct.v
        /\ ~direct.ok => outcome.stage = "braces"
        /\ (~direct.ok /\ ~HasBraces(raw_text)) =>
                outcome.kind = "raise" /\ outcome.data = Unparsed
        /\ (~direct.ok /\ HasBraces(raw_text)) =>
                LET block == json_loads(BraceBlock(raw_text))
                IN  IF block.ok THEN outcome.data = block.v
                    ELSE outcome.kind = "raise" /\ outcome.data = Unparsed

\* C4 as first stated: two stages, a fatal error when there are no braces or the
\* second parse fails, and success for every valid object with text around it.
C4_AnySurroundingText ==
    Called =>
        /\ TwoStages
        /\ \A i \in 1..Len(raw_text), o \in Objects :
              Embedded(raw_text, i, o) => Extracted(o.obj)

\* C4 (amended): two stages, a fatal error when there are no braces or the second
\* parse fails; a valid JSON object with text around it is extracted when no
\* "{" stands before it, no "}" stands after it and the reply as a whole is
\* not another JSON document.
C4_TwoStageParse ==
    Called =>
        /\ TwoStages
        /\ LET direct == json_loads(raw_text)
           IN  \A i \in 1..Len(raw_text), o \in Objects :
                 ( /\ Embedded(raw_text, i, o)
                   /\ \A k \in 1..(i - 1) : raw_text[k] # "{"
                   /\ \A k \in (i + Len(o.text))..Len(raw_text) : raw_text[k] # "}"
                   /\ direct.ok => direct.v = o.obj )
                 => Extracted(o.obj)

C4_Witness ==
    /\ raw_text = <<"x", " ">> \o json_dumps(WorkflowX) \o <<" ", "x">>
    /\ outcome = Return("braces", WorkflowX)

\* C5: generate_workflow returns only a JSON object holding both keys
\* workflow_name and steps, and returns it whole; every other parsed value ends
\* the call with an exception.
C5_RequiredKeys ==
    /\ outcome.kind = "return" =>
          /\ outcome.data.t = "obj"
          /\ HasKey(outcome.data, <<"workflow_name">>)
          /\ HasKey(outcome.data, <<"steps">>)
    /\ (Called /\ outcome.data # Unparsed
          /\ ~(/\ outcome.data.t = "obj"
                /\ HasKey(outcome.data, <<"workflow_name">>)
                /\ HasKey(outcome.data, <<"steps">>)))
          => outcome.kind = "raise"

C5_Witness ==
    /\ raw_text = json_dumps(Foo)
    /\ outcome = Raise("RuntimeError: missing required keys", "direct", Foo)

-----------------------------------------------------------------------------
(* generate.py and generate_from_transcript.py: generate_workflow_diagram *)

LabelLimit == 120
LabelKeep == 117

\* dict.get(key, default)
GetOr(data, k, default) == IF HasKey(data, k) THEN Get(data, k) ELSE default

\* str.strip(): blanks are dropped at both ends
RECURSIVE lstrip(_)
lstrip(s) == IF s # <<>> /\ Head(s) = " " THEN lstrip(Tail(s)) ELSE s

RECURSIVE rstrip(_)
rstrip(s) ==
    IF s # <<>> /\ s[Len(s)] = " " THEN rstrip(SubSeq(s, 1, Len(s) - 1)) ELSE s

strip(s) == rstrip(lstrip(s))

\* (faulty variant of StepLabel) the text is tested and used as it came, untrimmed
StepLabel_Untrimmed(step) == GetOr(step, <<"text">>, JStr(<<>>)).s

\* text = step.get("text", "").strip()
StepLabel(step) == strip(GetOr(step, <<"text">>, JStr(<<>>)).s)

\* sid = step.get("id")
StepId(step) == GetOr(step, <<"id">>, JNull)

\* if sid is None or not text: continue
Skipped(step) == StepId(step) = JNull \/ StepLabel(step) = <<>>

Kept(step) == ~Skipped(step)

\* the label as the renderer prints it: generate_from_transcript.py shortens it
ShortText(st, text) ==
    IF st = "minimal" /\ Len(text) > LabelLimit
    THEN SubSeq(text, 1, LabelKeep) \o <<"...">>
    ELSE text

\* generate.py shows id + 1, generate_from_transcript.py the id itself
StepLine(st, step) ==
    LET sid == StepId(step).n
        shown == IF st = "cyber" THEN sid + 1 ELSE sid
    IN  <<"- Step ", ToString(shown), ": ">> \o ShortText(st, StepLabel(step))

Placeholder == <<"- (No steps extracted)">>

StepsBlock(st, wf) ==
    LET steps == GetOr(wf, <<"steps">>, JArr(<<>>)).a
        kept == SelectSeq(steps, Kept)
        step_lines == [i \in 1..Len(kept) |-> StepLine(st, kept[i])]
    IN  IF step_lines # <<>> THEN Join(step_lines, <<"\n">>) ELSE Placeholder

\* a part of the image model's response: part.as_image() is an image or None
TextPart == "<text part>"
Images == {"img1", "img2"}
PartValues == Images \cup {TextPart}

as_image(part) == IF part \in Images THEN part ELSE "None"

\* (faulty variant of FirstImage) the scan keeps the last image instead of returning at the first
FirstImage_Last(ps) ==
    IF \E i \in 1..Len(ps) : as_image(ps[i]) # "None"
    THEN CHOOSE i \in 1..Len(ps) :
            as_image(ps[i]) # "None" /\ \A j \in (i + 1)..Len(ps) : as_image(ps[j]) = "None"
    ELSE 0

\* for part in response.parts: the index of the first part with an image, 0 if none
FirstImage(ps) ==
    IF \E i \in 1..Len(ps) : as_image(ps[i]) # "None"
    THEN CHOOSE i \in 1..Len(ps) :
            as_image(ps[i]) # "None" /\ \A j \in 1..(i - 1) : as_image(ps[j]) = "None"
    ELSE 0

OutputPath == "workflow_diagram.png"

Returned(path) == [kind |-> "return", path |-> path]
Raised(error) == [kind |-> "raise", error |-> error]
NoImage == "RuntimeError: No image returned from image model."

(* The workflows handed to the renderers *)

LongText == [i \in 1..(LabelLimit + 1) |-> "a"]

StepNoId(text) == JObj(<<Member(<<"text">>, JStr(text))>>)
StepNullId(text) == JObj(<<Member(<<"id">>, JNull), Member(<<"text">>, JStr(text))>>)
StepNoText(id) == JObj(<<Member(<<"id">>, JNum(id))>>)

RenderSteps ==
    { Step(0, <<>>),
      Step(1, <<"Open", " ", "form">>),
      Step(0, <<" ", "Save", " ">>),
      Step(0, <<" ", " ">>),
      Step(1, LongText),
      StepNullId(<<"Save">>),
      StepNoId(<<"Save">>),
      StepNoText(1) }

Workflow(name, steps) ==
    JObj(<<Member(<<"workflow_name">>, JStr(<<name>>)), Member(<<"steps">>, JArr(steps))>>)

RenderInputs == UNION {[1..n -> RenderSteps] : n \in 0..MaxRenderSteps}
PartLists == UNION {[1..n -> PartValues] : n \in 0..MaxParts}

RenderInit ==
    /\ ExtractIdle
    /\ ChatIdle
    /\ RunIdle
    /\ db = <<>>
    /\ hist = [n \in Names |-> <<>>]
    /\ cleared = [n \in Names |-> FALSE]
    /\ ret = NoCall
    /\ style = "none"
    /\ workflow = NoWorkflow
    /\ steps_block = <<>>
    /\ parts = <<>>
    /\ image_file \in {Absent, "old"}
    /\ render_out = NotCalled

\* one call of generate_workflow_diagram(client, workflow, output_path)
RenderDiagram(st, wf, ps) ==
    /\ style' = st
    /\ workflow' = wf
    /\ steps_block' = StepsBlock(st, wf)
    /\ parts' = ps
    /\ IF FirstImage(ps) # 0
       THEN /\ image_file' = as_image(ps[FirstImage(ps)])
            /\ render_out' = Returned(OutputPath)
       ELSE /\ image_file' = image_file
            /\ render_out' = Raised(NoImage)
    /\ UNCHANGED <<storeVars, extractVars, chat_call, runVars>>

RenderNext ==
    /\ render_out = NotCalled
    /\ \E st \in {"cyber", "minimal"}, steps \in RenderInputs, ps \in PartLists :
          RenderDiagram(st, Workflow("wf", steps), ps)

SpecRender == RenderInit /\ [][RenderNext]_vars

-----------------------------------------------------------------------------
(* Claims about the diagram renderers *)

Rendered == render_out.kind # "none"

\* a step with a non-null id and a text that is not empty after trimming
HasIdAndText(step) ==
    /\ HasKey(step, <<"id">>) /\ Get(step, <<"id">>) # JNull
    /\ HasKey(step, <<"text">>)
    /\ \E i \in 1..Len(Get(step, <<"text">>).s) : Get(step, <<"text">>).s[i] # " "

\* a text that is not blank, without the blanks at its two ends
Trimmed(text) ==
    LET ink == {i \in 1..Len(text) : text[i] # " "}
        first == CHOOSE i \in ink : \A j \in ink : i <= j
        last == CHOOSE i \in ink : \A j \in ink : j <= i
    IN  SubSeq(text, first, last)

RECURSIVE SplitLines(_)
SplitLines(s) ==
    IF \E i \in 1..Len(s) : s[i] = "\n"
    THEN LET k == CHOOSE i \in 1..Len(s) : s[i] = "\n" /\ \A j \in 1..(i - 1) : s[j] # "\n"
         IN  <<SubSeq(s, 1, k - 1)>> \o SplitLines(SubSeq(s, k + 1, Len(s)))
    ELSE <<s>>

\* line is the line of step: "- Step <n>: <label>", the label being the trimmed
\* text (cut to 117 atoms and "..." in generate_from_transcript.py when longer than 120)
LineOf(line, step) ==
    LET id == Get(step, <<"id">>).n
        text == Get(step, <<"text">>).s
        label == SubSeq(line, 4, Len(line))
    IN  /\ Len(line) > 3
        /\ line[1] = "- Step "
        /\ line[2] = ToString(IF style = "cyber" THEN id + 1 ELSE id)
        /\ line[3] = ": "
        /\ IF style = "minimal" /\ Len(Trimmed(text)) > LabelLimit
           THEN label = SubSeq(Trimmed(text), 1, LabelKeep) \o <<"...">>
           ELSE label = Trimmed(text)

\* C6: in both renderers the step block holds one line per step with a non-null
\* id and a non-blank text, in input order, and nothing for the other steps;
\* with no such step it is the placeholder line, never empty.
C6_StepBlock ==
    Rendered =>
        LET steps == Get(workflow, <<"steps">>).a
            valid == SelectSeq(steps, HasIdAndText)
            lines == SplitLines(steps_block)
        IN  /\ steps_block # <<>>
            /\ valid = <<>> => steps_block = Placeholder
            /\ valid # <<>> =>
                  /\ Len(lines) = Len(valid)
                  /\ \A k \in 1..Len(valid) : LineOf(lines[k], valid[k])

C6_Witness ==
    /\ style = "cyber"
    /\ Get(workflow, <<"steps">>).a = <<Step(0, <<>>), Step(1, <<"Open", " ", "form">>)>>
    /\ steps_block = <<"- Step ", "2", ": ", "Open", " ", "form">>

\* C8: a call of generate_workflow_diagram saves exactly the first part that
\* holds an image and returns the output path; with no such part it raises "No
\* image returned", leaves the file at the output path as it was and returns
\* no path.
C8_FirstImageOrError ==
    [][render_out' # render_out =>
         IF \E i \in 1..Len(parts') : parts'[i] \in Images
         THEN \E i \in 1..Len(parts') :
                 /\ parts'[i] \in Images
                 /\ \A j \in 1..(i - 1) : parts'[j] \notin Images
                 /\ image_file' = parts'[i]
                 /\ render_out' = Returned(OutputPath)
         ELSE /\ render_out' = Raised(NoImage)
              /\ image_file' = image_file]_vars

C8_Witness ==
    /\ parts = <<"img2", "img1">>
    /\ image_file = "img2"
    /\ render_out = Returned(OutputPath)

-----------------------------------------------------------------------------
(* chat.py: POST /chat *)

Preamble == <<"<preamble>">>
Connective == <<"! Provide help with the following question!">>

\* (faulty variant of ChatContents) the question is placed before the steps
ChatContents_MessageFirst(steps, message) ==
    << Preamble,
       message,
       Connective,
       Join([i \in 1..Len(steps) |-> Get(steps[i], <<"text">>).s], <<",", " ">>) >>

\* lines 39-48: the contents list handed to generate_content
ChatContents(steps, message) ==
    << Preamble,
       Join([i \in 1..Len(steps) |-> Get(steps[i], <<"text">>).s], <<",", " ">>),
       Connective,
       message >>

ChatResponse(reply) == [reply |-> reply]

Messages == { <<"what do I click?">>, <<"next", ",", " ", "please">> }
ModelTexts == { <<"Click submit.">>, <<>> }

\* one request: read the steps, ask the model, wrap its reply
Chat(message, text_response) ==
    /\ ~get_steps_raises(db, "workflow")
    /\ chat_call' = [ op |-> "chat",
                      message |-> message,
                      contents |-> ChatContents(get_steps(db, "workflow"), message),
                      model_text |-> text_response,
                      response |-> ChatResponse(text_response) ]
    /\ UNCHANGED <<storeVars, extractVars, renderVars, runVars>>

ChatNext ==
    \/ \E step \in StepValues, name \in Names : AddStep(step, name)
    \/ \E name \in Names : DeleteSteps(name)
    \/ \E message \in Messages, text_response \in ModelTexts : Chat(message, text_response)

SpecChat == StoreInit /\ [][ChatNext]_vars

-----------------------------------------------------------------------------
(* Claims about the chat endpoint *)

\* the texts of the steps, in order, with ", " between them
RECURSIVE TextsByComma(_)
TextsByComma(steps) ==
    IF steps = <<>> THEN <<>>
    ELSE IF Len(steps) = 1 THEN Get(steps[1], <<"text">>).s
    ELSE Get(steps[1], <<"text">>).s \o <<",", " ">> \o TextsByComma(Tail(steps))

\* C7: a chat request sends the preamble, the texts of the stored steps of
\* "workflow" in stored order joined by ", ", the connective phrase and the
\* user's message, in this order; its reply field is the model's text; and it
\* changes no stored list.
C7_ChatGrounding ==
    [][chat_call'.op = "chat" =>
         /\ chat_call'.contents =
               <<Preamble, TextsByComma(hist["workflow"]), Connective, chat_call'.message>>
         /\ chat_call'.response.reply = chat_call'.model_text
         /\ db' = db]_vars

C7_Witness ==
    /\ chat_call.op = "chat"
    /\ Len(hist["workflow"]) = 2
    /\ hist["workflow"][1] # hist["workflow"][2]
    /\ hist["other"] # <<>>
    /\ chat_call.message = <<"what do I click?">>
    /\ chat_call.response.reply = <<"Click submit.">>

-----------------------------------------------------------------------------
(* main.py: the image pipeline *)

otherVars == <<ret, extractVars, renderVars, chat_call>>

\* file names are numbered in their sorted order; a directory is a set of them
FileNames == 1..MaxFiles

\* sorted(os.listdir("assets/workflow"))
RECURSIVE sorted(_)
sorted(S) ==
    IF S = {} THEN <<>>
    ELSE LET least == CHOOSE x \in S : \A y \in S : x <= y
         IN  <<least>> \o sorted(S \ {least})

\* response.text of the summary request for a file
Summary(filename) == <<"action in file ", ToString(filename)>>

\* lines 19-21: a run starts, sets i = 0 and lists the directory
StartRun(p, dir) ==
    /\ started < MaxRuns
    /\ pc' = [pc EXCEPT ![p] = "loop"]
    /\ files' = [files EXCEPT ![p] = sorted(dir)]
    /\ idx' = [idx EXCEPT ![p] = 0]
    /\ snapshot' = [snapshot EXCEPT ![p] = <<>>]
    /\ started' = started + 1
    /\ UNCHANGED <<db, hist, cleared, arrivals, otherVars>>

\* lines 21-45, one pass of the loop: the summary arrives, the step is pushed
ExtractStep(p) ==
    /\ pc[p] = "loop"
    /\ idx[p] < Len(files[p])
    /\ LET step == Step(idx[p], Summary(files[p][idx[p] + 1]))
       IN  /\ db' = add_step(db, step, "workflow")
           /\ hist' = [hist EXCEPT !["workflow"] = Append(@, step)]
    /\ arrivals' = Append(arrivals, p)
    /\ idx' = [idx EXCEPT ![p] = idx[p] + 1]
    /\ UNCHANGED <<cleared, pc, files, snapshot, started, otherVars>>

\* lines 26-35: generate_content raises; nothing catches it, the process ends
SummaryFails(p) ==
    /\ pc[p] = "loop"
    /\ idx[p] < Len(files[p])
    /\ pc' = [pc EXCEPT ![p] = "aborted"]
    /\ UNCHANGED <<db, hist, cleared, files, idx, snapshot, started, arrivals, otherVars>>

\* lines 47-50: the loop is over, the workflow dict is built from get_steps
Snapshot(p) ==
    /\ pc[p] = "loop"
    /\ idx[p] = Len(files[p])
    /\ ~get_steps_raises(db, "workflow")
    /\ snapshot' = [snapshot EXCEPT ![p] = get_steps(db, "workflow")]
    /\ pc' = [pc EXCEPT ![p] = "render"]
    /\ UNCHANGED <<db, hist, cleared, files, idx, started, arrivals, otherVars>>

\* lines 57-60: the diagram is saved, then delete_steps("workflow")
RenderAndDelete(p) ==
    /\ pc[p] = "render"
    /\ db' = delete_steps(db, "workflow")
    /\ hist' = [hist EXCEPT !["workflow"] = <<>>]
    /\ cleared' = [cleared EXCEPT !["workflow"] = TRUE]
    /\ pc' = [pc EXCEPT ![p] = "done"]
    /\ UNCHANGED <<files, idx, snapshot, started, arrivals, otherVars>>

\* line 57: generate_workflow_diagram raises (the model call, or no image returned)
RenderFails(p) ==
    /\ pc[p] = "render"
    /\ pc' = [pc EXCEPT ![p] = "aborted"]
    /\ UNCHANGED <<db, hist, cleared, files, idx, snapshot, started, arrivals, otherVars>>

\* runs of main.py one after another, against the same Redis
NextRun ==
    /\ pc[1] \in {"idle", "done", "aborted"}
    /\ \E dir \in SUBSET FileNames : StartRun(1, dir)

PipelineNext ==
    \/ NextRun
    \/ ExtractStep(1)
    \/ SummaryFails(1)
    \/ Snapshot(1)
    \/ RenderAndDelete(1)
    \/ RenderFails(1)

SpecPipeline == StoreInit /\ [][PipelineNext]_vars

\* two runs of main.py at the same time, against the same Redis
FirstRun(p) ==
    /\ pc[p] = "idle"
    /\ \E dir \in SUBSET FileNames : StartRun(p, dir)

ConcurrentNext ==
    \/ \E p \in Procs : FirstRun(p)
    \/ \E p \in Procs : ExtractStep(p)
    \/ \E p \in Procs : SummaryFails(p)
    \/ \E p \in Procs : Snapshot(p)
    \/ \E p \in Procs : RenderAndDelete(p)
    \/ \E p \in Procs : RenderFails(p)

SpecConcurrent == StoreInit /\ [][ConcurrentNext]_vars

-----------------------------------------------------------------------------
(* Claims about the pipeline *)

StoredIds ==
    LET steps == get_steps(db, "workflow")
    IN  [k \in 1..Len(steps) |-> Get(steps[k], <<"id">>).n]

\* C9: over runs of main.py one after another, any of which may abort at a model
\* call, the steps stored under "workflow" have the ids 0, 1, 2, ... in
\* insertion order (unique and contiguous), and the snapshot a run hands to the
\* renderer holds exactly the ids 0..N-1 of the N files of that run.
C9_UniqueContiguousIds ==
    /\ \A k \in 1..Len(StoredIds) : StoredIds[k] = k - 1
    /\ pc[1] = "render" =>
          /\ Len(snapshot[1]) = Len(files[1])
          /\ \A k \in 1..Len(snapshot[1]) : Get(snapshot[1][k], <<"id">>).n = k - 1

\* the steps process p has pushed so far, in its own order
OwnStep(p, n) == Step(n - 1, Summary(files[p][n]))

\* how many of the first k arrivals came from process p
RECURSIVE CountOf(_, _)
CountOf(p, k) ==
    IF k = 0 THEN 0 ELSE CountOf(p, k - 1) + (IF arrivals[k] = p THEN 1 ELSE 0)

\* C10: while no delete_steps has run, get_steps returns one step per append of
\* either run, in the order the appends reached the store: the k-th stored step
\* is the next step, in its own order, of the run whose append arrived k-th.
C10_InterleavedAppends ==
    ~cleared["workflow"] =>
        LET steps == get_steps(db, "workflow")
        IN  /\ ~get_steps_raises(db, "workflow")
            /\ Len(steps) = idx[1] + idx[2]
            /\ Len(steps) = Len(arrivals)
            /\ \A k \in 1..Len(steps) :
                  steps[k] = OwnStep(arrivals[k], CountOf(arrivals[k], k))
            /\ \A p \in Procs : CountOf(p, Len(arrivals)) = idx[p]

C10_Witness ==
    /\ ~cleared["workflow"]
    /\ arrivals = <<1, 2, 2, 1>>
    /\ files[1] = files[2]
    /\ Len(get_steps(db, "workflow")) = 4
    /\ get_steps(db, "workflow")[1] = get_steps(db, "workflow")[2]

====
